---- MODULE Spec2Model ----
(***************************************************************************)
(* hexlit: the hex! macro and its internals (src/src/lib.rs).              *)
(*                                                                         *)
(* hex!(@string arg) is modelled as a state machine: count_skipped, the    *)
(* require_even_number_digits! type check, and convert, whose outer while  *)
(* loop takes one step per iteration.  Bytes are numbers 0..255; Rust's    *)
(* 0-based index i of a slice is position i + 1 of a TLA+ sequence.        *)
(***************************************************************************)
EXTENDS Integers, Sequences, FiniteSets, TLC

(* Longest input drawn from Alphabet. *)
MaxLen == 4

(* Longest context (drawn from Context) around one arbitrary byte. *)
MaxCtx == 2

(* '0' '9' 'A' 'F' 'a' 'f' ' ' '_' 'g' *)
Alphabet == {48, 57, 65, 70, 97, 102, 32, 95, 103}

(* '0' 'f' '_' *)
Context == {48, 102, 95}

Bytes == 0..255

VARIABLES
    DATA,          \* hex!: const DATA: &[u8] = $arg.as_bytes()
    pc,            \* position in the expansion of hex!
    SKIP_LENGTH,   \* hex!: const SKIP_LENGTH
    ARRAY_LENGTH,  \* hex!: const ARRAY_LENGTH, convert's RESULT_SIZE
    data,          \* convert: let mut data = [0_u8; RESULT_SIZE]
    data_index,    \* convert: write cursor
    char_index,    \* convert: read cursor
    next_index,    \* convert: inner cursor of the last pair decoded
    error,         \* "none", or the failure that stopped the expansion
    iterations,    \* history: iterations of convert's outer loop so far
    writes,        \* history: the indices data[..] was written at, in order
    c,             \* is_valid_delimiter: its argument
    result         \* is_valid_delimiter: its return value, once called

vars == <<DATA, pc, SKIP_LENGTH, ARRAY_LENGTH, data, data_index, char_index,
          next_index, error, iterations, writes, c, result>>

(***************************************************************************)
(* Helpers of the model.                                                   *)
(***************************************************************************)

(* input[i] of the Rust slice. *)
At(s, i) == s[i + 1]

SeqsUpTo(S, n) == UNION {[1..k -> S] : k \in 0..n}

(* s with byte b inserted so that it sits at 0-based position k. *)
InsertAt(s, k, b) == SubSeq(s, 1, k) \o <<b>> \o SubSeq(s, k + 1, Len(s))

(* The inputs the expansion is run on: every string over Alphabet of at    *)
(* most MaxLen bytes, and every one of the 256 bytes at every position of  *)
(* every string over Context of at most MaxCtx bytes.                      *)
Inputs ==
    SeqsUpTo(Alphabet, MaxLen)
    \cup {InsertAt(s, k, b) : <<s, k, b>> \in
            {t \in SeqsUpTo(Context, MaxCtx) \X (0..MaxCtx) \X Bytes :
                t[2] <= Len(t[1])}}

(***************************************************************************)
(* internals                                                               *)
(***************************************************************************)

DELIMITERS_NoHyphen == <<32, 34, 95, 124>>

(* const DELIMITERS: [u8; 5] = [b' ', b'"', b'_', b'|', b'-'] *)
DELIMITERS == <<32, 34, 95, 124, 45>>

RECURSIVE is_valid_delimiter_loop(_, _, _)
is_valid_delimiter_loop(byte, index, res) ==
    IF index < Len(DELIMITERS)
    THEN is_valid_delimiter_loop(byte, index + 1,
                                 res \/ (byte = At(DELIMITERS, index)))
    ELSE res

is_valid_delimiter(byte) == is_valid_delimiter_loop(byte, 0, FALSE)

RECURSIVE count_skipped_loop(_, _, _)
count_skipped_loop(bytes, index, char_count) ==
    IF index < Len(bytes)
    THEN count_skipped_loop(bytes, index + 1,
            IF is_valid_delimiter(At(bytes, index))
            THEN char_count + 1 ELSE char_count)
    ELSE char_count

count_skipped_MissLast(bytes) ==
    count_skipped_loop(SubSeq(bytes, 1, Len(bytes) - 1), 0, 0)

count_skipped(bytes) == count_skipped_loop(bytes, 0, 0)

(* to_ordinal's last arm indexes a one-element array at 1: it panics (in a *)
(* const context, a compile error) and returns nothing.  The model marks   *)
(* that with a value no digit has.                                         *)
Panic == 0 - 1

InvalidOrdinal_Zero(input) == 0

InvalidOrdinal(input) == Panic

LowerOrdinal_NoOffset(input) == input - 97

LowerOrdinal(input) == input - 97 + 10

UpperOrdinal(input) == input - 65 + 10

to_ordinal(input) ==
    IF input \in 48..57 THEN input - 48
    ELSE IF input \in 65..70 THEN UpperOrdinal(input)
    ELSE IF input \in 97..102 THEN LowerOrdinal(input)
    ELSE InvalidOrdinal(input)

(* convert: while data_index < STRING_SIZE && char_index + 1 < STRING_SIZE *)
LoopGuard(di, ci, STRING_SIZE) == di < STRING_SIZE /\ ci + 1 < STRING_SIZE

SkipDelimiters_None(input, index, STRING_SIZE) == index

(* convert: the inner while, from next_index = index. *)
RECURSIVE SkipDelimiters(_, _, _)
SkipDelimiters(input, index, STRING_SIZE) ==
    IF index < STRING_SIZE /\ is_valid_delimiter(At(input, index))
    THEN SkipDelimiters(input, index + 1, STRING_SIZE)
    ELSE index

Combine_Swapped(high, low) == low * 16 + high

(* to_ordinal(input[char_index]) * 16 + to_ordinal(input[next_index]) *)
Combine(high, low) == high * 16 + low

AfterPair_Same(ni) == ni

(* char_index = next_index + 1 *)
AfterPair(ni) == ni + 1

AfterDelimiter_Same(ci) == ci

(* char_index += 1 *)
AfterDelimiter(ci) == ci + 1

Stopped(st, e) == [st EXCEPT !.error = e]

(* One iteration of convert's outer loop on the locals st.  The operands   *)
(* are evaluated left to right and the right-hand side before the indexed  *)
(* store; a u8 overflow stops a const evaluation, so it is a failure.      *)
LoopBody(input, RESULT_SIZE, STRING_SIZE, st) ==
    IF ~is_valid_delimiter(At(input, st.char_index))
    THEN LET ni   == SkipDelimiters(input, st.char_index + 1, STRING_SIZE)
             high == to_ordinal(At(input, st.char_index))
             s1   == [st EXCEPT !.next_index = ni]
         IN  IF high = Panic THEN Stopped(s1, "InvalidDigit")
             ELSE IF high * 16 > 255 THEN Stopped(s1, "Overflow")
             ELSE IF ni >= Len(input) THEN Stopped(s1, "IndexOutOfBounds")
             ELSE LET low == to_ordinal(At(input, ni))
                  IN  IF low = Panic THEN Stopped(s1, "InvalidDigit")
                      ELSE IF Combine(high, low) > 255
                           THEN Stopped(s1, "Overflow")
                      ELSE IF st.data_index >= RESULT_SIZE
                           THEN Stopped(s1, "IndexOutOfBounds")
                      ELSE [s1 EXCEPT
                              !.data = [st.data EXCEPT
                                          ![st.data_index + 1] =
                                              Combine(high, low)],
                              !.char_index = AfterPair(ni),
                              !.data_index = st.data_index + 1]
    ELSE [st EXCEPT !.char_index = AfterDelimiter(st.char_index)]

(* convert's locals on entry. *)
Locals(RESULT_SIZE) ==
    [data |-> [i \in 1..RESULT_SIZE |-> 0], data_index |-> 0,
     char_index |-> 0, next_index |-> 0, error |-> "none"]

RECURSIVE convert_loop(_, _, _, _)
convert_loop(input, RESULT_SIZE, STRING_SIZE, st) ==
    IF st.error = "none" /\ LoopGuard(st.data_index, st.char_index, STRING_SIZE)
    THEN convert_loop(input, RESULT_SIZE, STRING_SIZE,
                      LoopBody(input, RESULT_SIZE, STRING_SIZE, st))
    ELSE st

convert(input, RESULT_SIZE, STRING_SIZE) ==
    convert_loop(input, RESULT_SIZE, STRING_SIZE, Locals(RESULT_SIZE))

(***************************************************************************)
(* hex! and require_even_number_digits!                                    *)
(***************************************************************************)

EvenArg_LenOnly(len, skip) == len

(* require_even_number_digits!($arg.len() - SKIP_LENGTH) *)
EvenArg(len, skip) == len - skip

(* Even<[(); e % 2]> names a type only for [(); 0]. *)
HasEvenMarker(e) == e % 2 = 0

(* const ARRAY_LENGTH: usize = ($arg.len() - SKIP_LENGTH) / 2 *)
ArrayLength(len, skip) == (len - skip) \div 2

(* The whole expansion as a function of its argument: the failure, if any, *)
(* and the array it evaluates to (none when it fails).                     *)
hex(arg) ==
    LET skip == count_skipped(arg)
    IN  IF ~HasEvenMarker(EvenArg(Len(arg), skip))
        THEN [error |-> "OddDigitCount", data |-> <<>>]
        ELSE LET st == convert(arg, ArrayLength(Len(arg), skip), Len(arg))
             IN  [error |-> st.error,
                  data  |-> IF st.error = "none" THEN st.data ELSE <<>>]

(***************************************************************************)
(* The expansion of hex!(@string arg), step by step.                       *)
(***************************************************************************)

Idle ==
    /\ SKIP_LENGTH = 0 /\ ARRAY_LENGTH = 0
    /\ data = <<>> /\ data_index = 0 /\ char_index = 0 /\ next_index = 0
    /\ error = "none" /\ iterations = 0 /\ writes = <<>>

Init ==
    /\ DATA \in Inputs
    /\ pc = "count_skipped"
    /\ Idle
    /\ c = 0 /\ result = "uncalled"

(* const SKIP_LENGTH: usize = count_skipped(&DATA) *)
CountSkipped ==
    /\ pc = "count_skipped"
    /\ SKIP_LENGTH' = count_skipped(DATA)
    /\ pc' = "require_even"
    /\ UNCHANGED <<DATA, ARRAY_LENGTH, data, data_index, char_index,
                   next_index, error, iterations, writes, c, result>>

(* The type check fails: the expansion does not compile. *)
RequireEvenRejects ==
    /\ pc = "require_even"
    /\ ~HasEvenMarker(EvenArg(Len(DATA), SKIP_LENGTH))
    /\ pc' = "rejected"
    /\ error' = "OddDigitCount"
    /\ UNCHANGED <<DATA, SKIP_LENGTH, ARRAY_LENGTH, data, data_index,
                   char_index, next_index, iterations, writes, c, result>>

(* The type check passes; ARRAY_LENGTH is computed and convert is entered. *)
RequireEvenPasses ==
    /\ pc = "require_even"
    /\ HasEvenMarker(EvenArg(Len(DATA), SKIP_LENGTH))
    /\ pc' = "convert"
    /\ ARRAY_LENGTH' = ArrayLength(Len(DATA), SKIP_LENGTH)
    /\ data' = Locals(ARRAY_LENGTH').data
    /\ data_index' = 0
    /\ char_index' = 0
    /\ UNCHANGED <<DATA, SKIP_LENGTH, next_index, error, iterations, writes,
                   c, result>>

(* One iteration of convert's outer loop. *)
ConvertStep ==
    /\ pc = "convert"
    /\ LoopGuard(data_index, char_index, Len(DATA))
    /\ LET st == LoopBody(DATA, ARRAY_LENGTH, Len(DATA),
                          [data |-> data, data_index |-> data_index,
                           char_index |-> char_index,
                           next_index |-> next_index, error |-> error])
       IN  /\ data' = st.data
           /\ data_index' = st.data_index
           /\ char_index' = st.char_index
           /\ next_index' = st.next_index
           /\ error' = st.error
           /\ pc' = IF st.error = "none" THEN "convert" ELSE "panicked"
           /\ writes' = IF st.data_index # data_index
                        THEN Append(writes, data_index) ELSE writes
    /\ iterations' = iterations + 1
    /\ UNCHANGED <<DATA, SKIP_LENGTH, ARRAY_LENGTH, c, result>>

(* The loop guard is false: convert returns data. *)
ConvertReturn ==
    /\ pc = "convert"
    /\ ~LoopGuard(data_index, char_index, Len(DATA))
    /\ pc' = "returned"
    /\ UNCHANGED <<DATA, SKIP_LENGTH, ARRAY_LENGTH, data, data_index,
                   char_index, next_index, error, iterations, writes, c,
                   result>>

Next ==
    \/ CountSkipped
    \/ RequireEvenRejects
    \/ RequireEvenPasses
    \/ ConvertStep
    \/ ConvertReturn

Spec == Init /\ [][Next]_vars

(***************************************************************************)
(* is_valid_delimiter called on every byte value.                          *)
(***************************************************************************)

InitDelim ==
    /\ DATA = <<>>
    /\ pc = "is_valid_delimiter"
    /\ Idle
    /\ c \in Bytes
    /\ result = "uncalled"

Classify ==
    /\ pc = "is_valid_delimiter"
    /\ result = "uncalled"
    /\ result' = IF is_valid_delimiter(c) THEN "true" ELSE "false"
    /\ UNCHANGED <<DATA, pc, SKIP_LENGTH, ARRAY_LENGTH, data, data_index,
                   char_index, next_index, error, iterations, writes, c>>

NextDelim == Classify

SpecDelim == InitDelim /\ [][NextDelim]_vars
(***************************************************************************)
(* The vocabulary of the claims, stated without the code's operators.      *)
(***************************************************************************)

(* space, double-quote, underscore, vertical bar, hyphen *)
DelimiterSet == {32, 34, 95, 124, 45}

IsHexDigit(b) == b \in (48..57) \cup (65..70) \cup (97..102)

(* '0'..'9' to 0..9, 'A'..'F' and 'a'..'f' to 10..15 *)
Value(b) == IF b <= 57 THEN b - 48 ELSE IF b <= 70 THEN b - 55 ELSE b - 87

NotDelimiter(b) == b \notin DelimiterSet

(* The non-delimiter bytes of s, in order. *)
Digits(s) == SelectSeq(s, NotDelimiter)

EvenCount(s) == Len(Digits(s)) % 2 = 0

AllHex(s) == \A i \in DOMAIN s : IsHexDigit(s[i]) \/ s[i] \in DelimiterSet

Validated(s) == AllHex(s) /\ EvenCount(s)

Expected(s) ==
    [i \in 1..(Len(Digits(s)) \div 2) |->
        16 * Value(Digits(s)[2 * i - 1]) + Value(Digits(s)[2 * i])]

Terminal == pc \in {"returned", "rejected", "panicked"}

PastCheck == pc \in {"convert", "returned", "rejected", "panicked"}

(* What a caller gets: whether a value exists, and the value. *)
Outcome(ok, bytes) == [ok |-> ok, data |-> IF ok THEN bytes ELSE <<>>]

SwapCase(b) ==
    IF b \in 65..70 THEN b + 32 ELSE IF b \in 97..102 THEN b - 32 ELSE b

(* s with the case of its letters changed at any set of positions. *)
CaseVariants(s) ==
    {[i \in 1..Len(s) |-> IF i \in S THEN SwapCase(s[i]) ELSE s[i]] :
        S \in SUBSET (1..Len(s))}

(***************************************************************************)
(* Claims                                                                  *)
(***************************************************************************)

(* C1: an input whose non-delimiter bytes are all hex digits, n of them    *)
(* with n even, expands to exactly n/2 bytes, byte i being                 *)
(* 16 * value(digit[2i]) + value(digit[2i+1]).                             *)
C1_DecodesPairs ==
    Validated(DATA) /\ Terminal =>
        /\ pc = "returned"
        /\ error = "none"
        /\ Len(data) = Len(Digits(DATA)) \div 2
        /\ data = Expected(DATA)

(* Two bytes decoded, a letter in each nibble position. *)
C1_Witness ==
    /\ pc = "returned"
    /\ Len(data) = 2
    /\ data[1] >= 160
    /\ data[2] % 16 >= 10
    /\ data[1] # data[2]

(* C2: expanding an input gives the same outcome (the same bytes, or a     *)
(* failure in both cases) as expanding it with every delimiter removed.    *)
C2_DelimiterInsensitive ==
    Terminal =>
        LET stripped == hex(Digits(DATA))
        IN  Outcome(pc = "returned", data)
                = Outcome(stripped.error = "none", stripped.data)

(* A delimiter between the two digits of one byte, and a trailing one. *)
C2_Witness ==
    /\ pc = "returned"
    /\ Len(DATA) = 4
    /\ Len(data) = 1
    /\ DATA[2] \in DelimiterSet
    /\ DATA[4] \in DelimiterSet

(* C3: for an accepted input, changing the case of the letters a-f / A-F   *)
(* at any positions yields exactly the same bytes.                         *)
C3_CaseInsensitive ==
    pc = "returned" =>
        \A t \in CaseVariants(DATA) :
            hex(t) = [error |-> "none", data |-> data]

C3_Witness ==
    /\ pc = "returned"
    /\ \E i, j \in DOMAIN DATA : DATA[i] \in 97..102 /\ DATA[j] \in 65..70

(* C4: an odd number of non-delimiter bytes is always rejected with        *)
(* OddDigitCount before convert is reached and no array is built; an even  *)
(* number is never rejected by the check.                                  *)
C4_OddRejected ==
    PastCheck =>
        IF EvenCount(DATA)
        THEN pc # "rejected" /\ error # "OddDigitCount"
        ELSE /\ pc = "rejected"
             /\ error = "OddDigitCount"
             /\ iterations = 0
             /\ data = <<>>

(* Odd digit count in an input of even length. *)
C4_Witness ==
    /\ pc = "rejected"
    /\ Len(DATA) % 2 = 0
    /\ SKIP_LENGTH > 0

(* C5, as claimed: every input holding a byte that is neither a hex digit  *)
(* nor a delimiter fails with the InvalidDigit failure of to_ordinal.      *)
C5_Original ==
    ~AllHex(DATA) /\ Terminal => pc = "panicked" /\ error = "InvalidDigit"

(* C5, amended: such an input never yields an array; it fails with         *)
(* InvalidDigit when its number of non-delimiter bytes is even, and with   *)
(* OddDigitCount, before convert is reached, when that number is odd.      *)
C5_InvalidFails ==
    ~AllHex(DATA) /\ Terminal =>
        /\ pc # "returned"
        /\ EvenCount(DATA) => pc = "panicked" /\ error = "InvalidDigit"
        /\ ~EvenCount(DATA) => pc = "rejected" /\ error = "OddDigitCount"

(* The invalid byte is the low digit of the second pair. *)
C5_Witness ==
    /\ pc = "panicked"
    /\ error = "InvalidDigit"
    /\ data_index = 1
    /\ ~IsHexDigit(At(DATA, next_index))
    /\ IsHexDigit(At(DATA, char_index))

(* C6: is_valid_delimiter returns on every one of the 256 byte values, and *)
(* returns true exactly on space, double-quote, underscore, vertical bar   *)
(* and hyphen; so false on every hex digit.                                *)
C6_DelimiterClassifier ==
    /\ c \in Bytes
    /\ result = "uncalled" => ENABLED Classify
    /\ result # "uncalled" =>
        /\ result = "true" <=> c \in DelimiterSet
        /\ IsHexDigit(c) => result = "false"

C6_Witness == result = "true" /\ c = 45

(* C7: an input with no non-delimiter byte is accepted; convert decodes no *)
(* digit, writes nothing, and returns the zero-length array.               *)
C7_EmptyAccepted ==
    Digits(DATA) = <<>> /\ PastCheck =>
        /\ pc \in {"convert", "returned"}
        /\ error = "none"
        /\ ARRAY_LENGTH = 0
        /\ data = <<>>
        /\ writes = <<>>

C7_Witness ==
    /\ pc = "returned"
    /\ Len(DATA) >= 3
    /\ Digits(DATA) = <<>>
    /\ iterations > 0

(* C8: an iteration of convert's loop runs only while data_index is below  *)
(* the output length RESULT_SIZE and char_index below the input length.    *)
C8_StopsWhenFull ==
    [][ConvertStep =>
        data_index < ARRAY_LENGTH /\ char_index < Len(DATA)]_vars

(* C9: on a validated input convert never aborts: input[char_index] and    *)
(* input[next_index] are read inside the input, data[data_index] is        *)
(* written inside the output, and no byte computed exceeds 255.            *)
C9_NoAbort ==
    Validated(DATA) =>
        /\ error = "none"
        /\ pc \notin {"panicked", "rejected"}
        /\ pc = "convert" /\ LoopGuard(data_index, char_index, Len(DATA))
              => char_index \in 0..(Len(DATA) - 1)
        /\ writes # <<>> => next_index \in 0..(Len(DATA) - 1)
        /\ \A i \in DOMAIN writes : writes[i] \in 0..(ARRAY_LENGTH - 1)
        /\ \A i \in DOMAIN data : data[i] \in 0..255

(* A pair whose low digit is the last byte, behind two delimiters. *)
C9_Witness ==
    /\ pc = "returned"
    /\ Validated(DATA)
    /\ writes = <<0>>
    /\ data[1] = 255
    /\ next_index = Len(DATA) - 1
    /\ next_index >= 3
    /\ At(DATA, next_index - 1) \in DelimiterSet
    /\ At(DATA, next_index - 2) \in DelimiterSet

(* C10: on a validated input every iteration moves char_index forward (by  *)
(* 1 on a delimiter, to next_index + 1 after a pair) and data_index by 1   *)
(* per pair; there are at most len(input) iterations; positions            *)
(* 0..RESULT_SIZE-1 are written once each in ascending order; convert      *)
(* can always take its next step until it returns, and returns with        *)
(* data_index = RESULT_SIZE.                                               *)
C10_TerminatesFilled ==
    /\ [][ConvertStep /\ Validated(DATA) =>
            /\ char_index' > char_index
            /\ \/ data_index' = data_index /\ char_index' = char_index + 1
               \/ /\ data_index' = data_index + 1
                  /\ char_index' = next_index' + 1]_vars
    /\ [](Validated(DATA) =>
            /\ iterations <= Len(DATA)
            /\ writes = [i \in 1..data_index |-> i - 1]
            /\ pc = "returned" =>
                  data_index = ARRAY_LENGTH /\ Len(writes) = ARRAY_LENGTH)
    /\ [](Validated(DATA) => pc = "returned" \/ ENABLED Next)

C10_Witness ==
    /\ pc = "returned"
    /\ Validated(DATA)
    /\ writes = <<0, 1>>
    /\ iterations = Len(DATA) - 2
====
